---- MODULE Spec2Model ----
(***************************************************************************)
(* Model of transcribe_episodes.py: the batch runner that discovers WAV    *)
(* files, skips those with a transcript, runs whisper-cli with retries,    *)
(* normalises the whisper JSON and saves one transcript per episode.       *)
(* File names are tuples of one-character strings so that slicing,         *)
(* prefix matching and sorting are computed as Python computes them.       *)
(***************************************************************************)
EXTENDS Integers, Sequences, FiniteSets, TLC

\* ------------------------------------------------------------------ bounds
MaxFiles == 2
MaxLimit == 1
MaxSegments == 2
MaxListed == 4

\* ------------------------------------------------------- program constants
max_retries == 3
initial_retry_delay == 30

\* ------------------------------------------------------------ text helpers
\* ord() of the characters used by the names of the model.
Ascii ==
  ("\t" :> 9) @@ (" " :> 32) @@ ("." :> 46) @@ ("0" :> 48) @@ ("1" :> 49) @@
  ("2" :> 50) @@ ("E" :> 69) @@ ("S" :> 83) @@ ("_" :> 95) @@ ("a" :> 97) @@
  ("b" :> 98) @@ ("e" :> 101) @@ ("j" :> 106) @@ ("n" :> 110) @@ ("o" :> 111) @@ ("s" :> 115) @@
  ("v" :> 118) @@ ("w" :> 119)

Ord(c) == Ascii[c]

Min(a, b) == IF a < b THEN a ELSE b
Max(a, b) == IF a > b THEN a ELSE b

\* Python's s[a:b] for 0 <= a (0-based, end exclusive, clipped to the length).
PySlice(s, a, b) == SubSeq(s, a + 1, Min(b, Len(s)))

\* Python's s[:n] for any integer n: a negative n counts from the end.
PyHead(s, n) ==
  IF n >= 0 THEN SubSeq(s, 1, Min(n, Len(s)))
  ELSE SubSeq(s, 1, Max(Len(s) + n, 0))

\* Lexicographic order of two character tuples (str.__lt__).
RECURSIVE StrLess(_, _)
StrLess(s, t) ==
  IF t = <<>> THEN FALSE
  ELSE IF s = <<>> THEN TRUE
  ELSE IF Ord(Head(s)) < Ord(Head(t)) THEN TRUE
  ELSE IF Ord(Head(s)) > Ord(Head(t)) THEN FALSE
  ELSE StrLess(Tail(s), Tail(t))

StartsWith(s, p) == Len(s) >= Len(p) /\ SubSeq(s, 1, Len(p)) = p
EndsWith(s, p) == Len(s) >= Len(p) /\ SubSeq(s, Len(s) - Len(p) + 1, Len(s)) = p

\* Path.stem: the name without its last suffix (a leading dot is no suffix).
LastDot(s) ==
  LET D == {k \in 2..Len(s) : s[k] = "."}
  IN IF D = {} THEN 0 ELSE CHOOSE k \in D : \A j \in D : j <= k

Stem(name) == IF LastDot(name) = 0 THEN name ELSE SubSeq(name, 1, LastDot(name) - 1)

\* str.strip(), str.split() and " ".join() on character tuples.
WS == {" ", "\t"}

RECURSIVE LStrip(_)
LStrip(s) == IF s # <<>> /\ Head(s) \in WS THEN LStrip(Tail(s)) ELSE s

RECURSIVE RStrip(_)
RStrip(s) ==
  IF s # <<>> /\ s[Len(s)] \in WS THEN RStrip(SubSeq(s, 1, Len(s) - 1)) ELSE s

Strip(s) == RStrip(LStrip(s))

RECURSIVE FirstToken(_)
FirstToken(s) ==
  IF s = <<>> \/ Head(s) \in WS THEN <<>> ELSE <<Head(s)>> \o FirstToken(Tail(s))

RECURSIVE Split(_)
Split(s) ==
  LET t == LStrip(s)
      w == FirstToken(t)
  IN IF t = <<>> THEN <<>> ELSE <<w>> \o Split(SubSeq(t, Len(w) + 1, Len(t)))

RECURSIVE Join(_)
Join(parts) ==
  IF parts = <<>> THEN <<>>
  ELSE IF Len(parts) = 1 THEN parts[1]
  ELSE parts[1] \o <<" ">> \o Join(Tail(parts))

\* --------------------------------------------------------- the file system
season_01 == << "s", "e", "a", "s", "o", "n", "_", "0", "1" >>
season_02 == << "s", "e", "a", "s", "o", "n", "_", "0", "2" >>
S01E01_wav == << "S", "0", "1", "E", "0", "1", ".", "w", "a", "v" >>
S01E02_wav == << "S", "0", "1", "E", "0", "2", ".", "w", "a", "v" >>

\* The files that may exist below audio_extracted/: <<directory, name>>.
AudioUniverse ==
  { <<season_01, S01E01_wav>>, <<season_01, S01E02_wav>>, <<season_02, S01E01_wav>> }

season_prefix == << "s", "e", "a", "s", "o", "n", "_" >>
wav_suffix == << ".", "w", "a", "v" >>

\* The entries of the tree in the order the file system lists them: glob()
\* yields them in any order.
Listings(T) ==
  {ls \in [1..Cardinality(T) -> T] :
     \A j, k \in 1..Cardinality(T) : j # k => ls[j] # ls[k]}

\* sorted() on a list of names.
RECURSIVE Insert(_, _)
Insert(x, s) ==
  IF s = <<>> THEN <<x>>
  ELSE IF StrLess(x, Head(s)) THEN <<x>> \o s
  ELSE <<Head(s)>> \o Insert(x, Tail(s))

RECURSIVE PySorted(_)
PySorted(s) == IF s = <<>> THEN <<>> ELSE Insert(Head(s), PySorted(Tail(s)))

\* The distinct elements of a list, in the order of their first occurrence.
RECURSIVE Unique(_)
Unique(s) ==
  IF s = <<>> THEN <<>>
  ELSE LET r == Unique(SubSeq(s, 1, Len(s) - 1))
       IN IF \E k \in 1..Len(r) : r[k] = s[Len(s)] THEN r ELSE Append(r, s[Len(s)])

\* audio_dir.glob("season_*"): the directories listed, each once.
season_dirs(ls) ==
  LET hits == SelectSeq(ls, LAMBDA p : StartsWith(p[1], season_prefix))
  IN Unique([k \in 1..Len(hits) |-> hits[k][1]])

\* season_dir.glob("*.wav"): the names listed in one directory.
season_files(ls, dir) ==
  LET hits == SelectSeq(ls, LAMBDA p : p[1] = dir /\ EndsWith(p[2], wav_suffix))
  IN [k \in 1..Len(hits) |-> hits[k][2]]

\* The loop of find_audio_files over the sorted directories:
\* wav_files.extend(sorted(season_files)).
RECURSIVE wav_files(_, _)
wav_files(dirs, ls) ==
  IF dirs = <<>> THEN <<>>
  ELSE LET names == PySorted(season_files(ls, Head(dirs)))
       IN [k \in 1..Len(names) |-> <<Head(dirs), names[k]>>] \o wav_files(Tail(dirs), ls)

\* find_audio_files that keeps the order in which glob() lists the entries.
find_audio_files_Unsorted(ls) ==
  SelectSeq(ls, LAMBDA p : StartsWith(p[1], season_prefix) /\ EndsWith(p[2], wav_suffix))

\* find_audio_files: season_* directories in sorted order, and in each the
\* *.wav files in sorted order.
find_audio_files(ls) == wav_files(PySorted(season_dirs(ls)), ls)

\* parse_episode_id: (stem, stem[1:3], stem[4:6]).
parse_episode_id(p) ==
  [episode_id |-> Stem(p[2]),
   season |-> PySlice(Stem(p[2]), 1, 3),
   episode |-> PySlice(Stem(p[2]), 4, 6)]

Ids == {Stem(p[2]) : p \in AudioUniverse}

\* ------------------------------------------------------- whisper payloads
\* What <audio_path>.json holds.  valid: json.load parses it; truthy: the
\* parsed value is not empty; has_transcription: the "transcription" key is
\* present; each raw segment lists the keys it has.
SegKeys == {"text", "offsets", "timestamps"}

Seg(keys, text, from, to) ==
  [keys |-> keys, text |-> text, from |-> from, to |-> to]

NoFile ==
  [exists |-> FALSE, valid |-> FALSE, truthy |-> FALSE,
   has_transcription |-> FALSE, transcription |-> <<>>]

P_invalid ==
  [exists |-> TRUE, valid |-> FALSE, truthy |-> FALSE,
   has_transcription |-> FALSE, transcription |-> <<>>]

P_empty ==
  [exists |-> TRUE, valid |-> TRUE, truthy |-> FALSE,
   has_transcription |-> FALSE, transcription |-> <<>>]

P_nokey ==
  [exists |-> TRUE, valid |-> TRUE, truthy |-> TRUE,
   has_transcription |-> FALSE, transcription |-> <<>>]

P_badseg ==
  [exists |-> TRUE, valid |-> TRUE, truthy |-> TRUE, has_transcription |-> TRUE,
   transcription |-> << Seg({"offsets", "timestamps"}, <<>>, 0, 1000) >>]

P_good ==
  [exists |-> TRUE, valid |-> TRUE, truthy |-> TRUE, has_transcription |-> TRUE,
   transcription |->
     << Seg(SegKeys, << " ", "a", " ", "b" >>, 0, 1500),
        Seg(SegKeys, << "b", "\t" >>, 1500, 2500) >>]

Payloads == {P_invalid, P_empty, P_nokey, P_badseg, P_good}

\* A payload the normaliser turns into a record: parsed, not empty, and every
\* segment has its text, offsets and timestamps.
WellFormed(t) ==
  /\ t.valid /\ t.truthy /\ t.has_transcription
  /\ \A k \in 1..Len(t.transcription) : t.transcription[k].keys = SegKeys

\* ----------------------------------------------------------- normalisation
\* The segment dictionary built in the loop over transcript["transcription"].
NormSegment(seg) ==
  [text |-> Strip(seg.text),
   start_ms |-> seg.from,
   end_ms |-> seg.to,
   timestamp_from |-> seg.from,
   timestamp_to |-> seg.to,
   words |-> Len(Split(seg.text))]

\* segment["text"], segment["offsets"] or segment["timestamps"] raises KeyError.
NormalizeRaises(t) ==
  /\ t.has_transcription
  /\ \E k \in 1..Len(t.transcription) : t.transcription[k].keys # SegKeys

\* Normalize that counts the characters of full_text: len(full_text).
Normalize_CountChars(file, t) ==
  LET segments == IF t.has_transcription
                  THEN [k \in 1..Len(t.transcription) |-> NormSegment(t.transcription[k])]
                  ELSE <<>>
      full_text == Join([k \in 1..Len(segments) |-> segments[k].text])
      parsed == parse_episode_id(file)
  IN [episode_id |-> parsed.episode_id,
      season |-> parsed.season,
      episode_number |-> parsed.episode,
      full_text |-> full_text,
      segments |-> segments,
      duration_seconds |-> IF segments # <<>> THEN segments[Len(segments)].end_ms ELSE 0,
      word_count |-> IF full_text # <<>> THEN Len(full_text) ELSE 0,
      segment_count |-> Len(segments)]

\* The EpisodeTranscript built from a parsed payload.  duration_seconds is
\* kept exact, in thousandths of a second (end_ms / 1000).
Normalize(file, t) ==
  LET segments == IF t.has_transcription
                  THEN [k \in 1..Len(t.transcription) |-> NormSegment(t.transcription[k])]
                  ELSE <<>>
      full_text == Join([k \in 1..Len(segments) |-> segments[k].text])
      parsed == parse_episode_id(file)
  IN [episode_id |-> parsed.episode_id,
      season |-> parsed.season,
      episode_number |-> parsed.episode,
      full_text |-> full_text,
      segments |-> segments,
      duration_seconds |-> IF segments # <<>> THEN segments[Len(segments)].end_ms ELSE 0,
      word_count |-> IF full_text # <<>> THEN Len(Split(full_text)) ELSE 0,
      segment_count |-> Len(segments)]

\* ------------------------------------------------------------ output files
Absent == [state |-> "absent"]
Partial == [state |-> "partial"]
Full(rec) == [state |-> "full", data |-> rec]

\* save_transcript's document (processed_at and processing time left out).
Document(rec) ==
  [episode_id |-> rec.episode_id,
   season |-> rec.season,
   episode_number |-> rec.episode_number,
   metadata |-> [duration_seconds |-> rec.duration_seconds,
                 word_count |-> rec.word_count,
                 segment_count |-> rec.segment_count],
   full_text |-> rec.full_text,
   segments |-> rec.segments]

\* -------------------------------------------------------------------- state
VARIABLES
  audio_dir_exists, \* whether audio_extracted/ exists (never changed)
  whisper_found, \* os.path.exists(self.whisper_path) of the current process
  exit_code,     \* the exit status of the process, once it has ended
  tree,          \* the audio files below audio_extracted/ (never changed)
  outputs,       \* transcripts/<episode_id>.json, per episode id
  whisper_json,  \* <audio_path>.json, per audio file
  pc,            \* where the running program is
  limit,         \* --limit of the current run
  audio_files,   \* the list run() iterates over
  i,             \* enumerate(audio_files, 1) index of the current item
  attempt,       \* loop variable of the retry loop
  retry_delay,   \* seconds the next backoff sleeps
  transcript,    \* the parsed whisper payload, or None
  result,        \* the EpisodeTranscript handed to save_transcript
  stats,         \* self.stats
  hist           \* observations of the run: calls made, sleeps, messages

vars ==
  << audio_dir_exists, whisper_found, exit_code, tree, outputs, whisper_json, pc, limit, audio_files, i, attempt,
     retry_delay, transcript, result, stats, hist >>

None == [exists |-> FALSE, valid |-> FALSE, truthy |-> FALSE,
         has_transcription |-> FALSE, transcription |-> <<>>, none |-> TRUE]

NoResult == [episode_id |-> <<>>]

\* args.limit: None without --limit, else the integer given.
NoLimit == [given |-> FALSE, n |-> 0]
Limit(n) == [given |-> TRUE, n |-> n]
Limits == {NoLimit} \cup {Limit(n) : n \in 0 .. MaxLimit}

\* The exit status: none while the process runs, 1 after sys.exit(1), 0 when
\* the script reaches its end.
NoExit == [exited |-> FALSE, code |-> 0]
Exit(n) == [exited |-> TRUE, code |-> n]

ZeroStats == [processed |-> 0, errors |-> 0, total_duration |-> 0, total_words |-> 0]

\* hist.outcomes: how each whisper-cli attempt for the current item ended
\* ("transient": timeout or non-zero exit; "missing": exit zero without the
\* JSON file; "unreadable": json.load raised; "loaded");
\* hist.delays: the time.sleep(retry_delay) calls for the current item;
\* hist.stats0: self.stats when the current item began;
\* hist.failure: the error the current item met;
\* hist.skipped and hist.writes: the "Skipping" messages and the
\* open(output_file, 'w') calls of the current run; hist.invoked: whether
\* the current run has called subprocess.run;
\* hist.prev: the counts of the previous run's summary when it printed one
\* (pc = "done"), else nothing.
\* hist.records and hist.words: the transcripts the current run has written
\* completely, and the sum of the word_count they hold;
\* hist.exhausted: the files of the current run that failed after
\* max_retries attempts; hist.prev.exhausted: those of the previous run.
NoPrev == [pc |-> "idle", processed |-> 0, errors |-> 0, skipped |-> 0, exhausted |-> {}]

NoHist ==
  [outcomes |-> <<>>, delays |-> <<>>, stats0 |-> ZeroStats, failure |-> "none",
   skipped |-> 0, invoked |-> FALSE, writes |-> 0, records |-> 0, words |-> 0,
   exhausted |-> {}, prev |-> NoPrev]

ItemHist(h, st) ==
  [h EXCEPT !.outcomes = <<>>, !.delays = <<>>, !.stats0 = st, !.failure = "none"]

RunHist(h, p, st) ==
  [NoHist EXCEPT !.prev = IF p = "done"
                          THEN [pc |-> p, processed |-> st.processed,
                                errors |-> st.errors, skipped |-> h.skipped,
                                exhausted |-> h.exhausted]
                          ELSE NoPrev]

\* An exception has left run(): the locals of process_single_episode are
\* gone, what the traceback tells (hist.failure) stays.
Crashed(h, failure) ==
  [h EXCEPT !.outcomes = <<>>, !.delays = <<>>, !.failure = failure]

Stopped == {"idle", "exited", "nofiles", "done", "crashed", "interrupted"}
Running == {"item", "attempt", "backoff", "check", "save", "dump", "stats", "returned"}

\* A completion check that never finds the transcript.
output_exists_Never(id) == FALSE

\* output_file.exists(): the completion check.
output_exists(id) == outputs[id].state # "absent"

audio_file == audio_files[i]
episode_id == parse_episode_id(audio_file).episode_id

Init ==
  /\ audio_dir_exists \in BOOLEAN
  /\ whisper_found = TRUE
  /\ exit_code = NoExit
  /\ tree \in IF audio_dir_exists
              THEN {T \in SUBSET AudioUniverse : Cardinality(T) <= MaxFiles}
              ELSE {{}}
  /\ outputs = [id \in Ids |-> Absent]
  /\ whisper_json = [p \in AudioUniverse |-> NoFile]
  /\ pc = "idle"
  /\ limit = NoLimit
  /\ audio_files = <<>>
  /\ i = 0
  /\ attempt = 0
  /\ retry_delay = initial_retry_delay
  /\ transcript = None
  /\ result = NoResult
  /\ stats = ZeroStats
  /\ hist = NoHist

\* run()'s "if limit: audio_files = audio_files[:limit]".
ApplyLimit(files, lim) ==
  IF lim.given /\ lim.n # 0 THEN PyHead(files, lim.n) ELSE files

\* StartRun that leaves through a plain return, with status 0, when
\* whisper-cli or the audio directory is missing.
StartRun_ExitZero(found_whisper) ==
  /\ pc \in Stopped
  /\ whisper_found' = found_whisper
  /\ stats' = ZeroStats
  /\ IF ~found_whisper \/ ~audio_dir_exists
     THEN /\ pc' = "exited"
          /\ exit_code' = Exit(0)
          /\ limit' = NoLimit
          /\ audio_files' = <<>>
          /\ i' = 0
     ELSE \E found \in {find_audio_files(ls) : ls \in Listings(tree)} :
            \E lim \in Limits : \E files \in {ApplyLimit(found, lim)} :
               /\ limit' = lim
               /\ audio_files' = IF found = <<>> THEN <<>> ELSE files
               /\ pc' = IF found = <<>> THEN "nofiles"
                        ELSE IF files = <<>> THEN "done" ELSE "item"
               /\ i' = IF found # <<>> /\ files # <<>> THEN 1 ELSE 0
               /\ exit_code' = IF found = <<>> \/ files = <<>> THEN Exit(0) ELSE NoExit
  /\ hist' = RunHist(hist, pc, stats)
  /\ attempt' = 0
  /\ retry_delay' = initial_retry_delay
  /\ transcript' = None
  /\ result' = NoResult
  /\ UNCHANGED <<audio_dir_exists, tree, outputs, whisper_json>>

\* The program is started with a whisper-cli path that exists or not and
\* with or without --limit: __init__ exits with status 1 when whisper-cli or
\* the audio directory is missing, else it resets the stats; run() discovers
\* the files, returns when there are none, and applies the limit.
StartRun(found_whisper) ==
  /\ pc \in Stopped
  /\ whisper_found' = found_whisper
  /\ stats' = ZeroStats
  /\ IF ~found_whisper \/ ~audio_dir_exists
     THEN /\ pc' = "exited"
          /\ exit_code' = Exit(1)
          /\ limit' = NoLimit
          /\ audio_files' = <<>>
          /\ i' = 0
     ELSE \E found \in {find_audio_files(ls) : ls \in Listings(tree)} :
            \E lim \in Limits : \E files \in {ApplyLimit(found, lim)} :
               /\ limit' = lim
               /\ audio_files' = IF found = <<>> THEN <<>> ELSE files
               /\ pc' = IF found = <<>> THEN "nofiles"
                        ELSE IF files = <<>> THEN "done" ELSE "item"
               /\ i' = IF found # <<>> /\ files # <<>> THEN 1 ELSE 0
               /\ exit_code' = IF found = <<>> \/ files = <<>> THEN Exit(0) ELSE NoExit
  /\ hist' = RunHist(hist, pc, stats)
  /\ attempt' = 0
  /\ retry_delay' = initial_retry_delay
  /\ transcript' = None
  /\ result' = NoResult
  /\ UNCHANGED <<audio_dir_exists, tree, outputs, whisper_json>>

\* BeginItem that uses the whisper JSON of an earlier run before it looks
\* for the transcript.
BeginItem_CacheFirst ==
  /\ pc = "item"
  /\ IF whisper_json[audio_file].exists /\ whisper_json[audio_file].valid
     THEN /\ pc' = "check"
          /\ transcript' = whisper_json[audio_file]
          /\ hist' = ItemHist(hist, stats)
          /\ exit_code' = exit_code
     ELSE IF output_exists(episode_id)
     THEN /\ pc' = "returned"
          /\ hist' = [ItemHist(hist, stats) EXCEPT !.skipped = @ + 1]
          /\ transcript' = None
          /\ exit_code' = exit_code
     ELSE /\ pc' = "attempt"
          /\ transcript' = None
          /\ hist' = ItemHist(hist, stats)
          /\ exit_code' = exit_code
  /\ attempt' = 0
  /\ retry_delay' = initial_retry_delay
  /\ result' = NoResult
  /\ UNCHANGED <<audio_dir_exists, whisper_found, tree, outputs, whisper_json, limit, audio_files, i, stats>>

\* BeginItem that never looks for the whisper JSON of an earlier run.
BeginItem_IgnoreCache ==
  /\ pc = "item"
  /\ IF output_exists(episode_id)
     THEN /\ pc' = "returned"
          /\ hist' = [ItemHist(hist, stats) EXCEPT !.skipped = @ + 1]
     ELSE /\ pc' = "attempt"
          /\ hist' = ItemHist(hist, stats)
  /\ transcript' = None
  /\ exit_code' = exit_code
  /\ attempt' = 0
  /\ retry_delay' = initial_retry_delay
  /\ result' = NoResult
  /\ UNCHANGED <<audio_dir_exists, whisper_found, tree, outputs, whisper_json, limit, audio_files, i, stats>>

\* process_single_episode up to the retry loop: skip when the transcript
\* exists, load a whisper JSON left by an earlier run, else start retrying.
BeginItem ==
  /\ pc = "item"
  /\ IF output_exists(episode_id)
     THEN /\ pc' = "returned"
          /\ hist' = [ItemHist(hist, stats) EXCEPT !.skipped = @ + 1]
          /\ transcript' = None
          /\ exit_code' = exit_code
     ELSE IF whisper_json[audio_file].exists
     THEN IF whisper_json[audio_file].valid
          THEN /\ pc' = "check"
               /\ transcript' = whisper_json[audio_file]
               /\ hist' = ItemHist(hist, stats)
               /\ exit_code' = exit_code
          ELSE /\ pc' = "crashed"
               /\ transcript' = None
               /\ hist' = Crashed(ItemHist(hist, stats), "payload")
               /\ exit_code' = Exit(0)
     ELSE /\ pc' = "attempt"
          /\ transcript' = None
          /\ hist' = ItemHist(hist, stats)
          /\ exit_code' = exit_code
  /\ attempt' = 0
  /\ retry_delay' = initial_retry_delay
  /\ result' = NoResult
  /\ UNCHANGED <<audio_dir_exists, whisper_found, tree, outputs, whisper_json, limit, audio_files, i, stats>>

\* AttemptFailed without "self.stats['errors'] += 1" after the last attempt.
AttemptFailed_NoCount(outcome, wj) ==
  /\ whisper_json' = wj
  /\ transcript' = None
  /\ IF attempt < max_retries - 1
     THEN /\ pc' = "backoff"
          /\ stats' = stats
          /\ hist' = [hist EXCEPT !.outcomes = Append(@, outcome),
                                  !.delays = Append(@, retry_delay),
                                  !.invoked = TRUE]
     ELSE /\ pc' = "returned"
          /\ stats' = stats
          /\ hist' = [hist EXCEPT !.outcomes = Append(@, outcome),
                                  !.invoked = TRUE,
                                  !.failure = "transcription",
                                  !.exhausted = @ \cup {audio_file}]

\* AttemptFailed giving up at once when the JSON file is missing.
AttemptFailed_MissingFatal(outcome, wj) ==
  /\ whisper_json' = wj
  /\ transcript' = None
  /\ IF attempt < max_retries - 1 /\ outcome # "missing"
     THEN /\ pc' = "backoff"
          /\ stats' = stats
          /\ hist' = [hist EXCEPT !.outcomes = Append(@, outcome),
                                  !.delays = Append(@, retry_delay),
                                  !.invoked = TRUE]
     ELSE /\ pc' = "returned"
          /\ stats' = [stats EXCEPT !.errors = @ + 1]
          /\ hist' = [hist EXCEPT !.outcomes = Append(@, outcome),
                                  !.invoked = TRUE,
                                  !.failure = "transcription",
                                  !.exhausted = @ \cup {audio_file}]

\* AttemptFailed that counts an error at every failed attempt.
AttemptFailed_CountEach(outcome, wj) ==
  /\ whisper_json' = wj
  /\ transcript' = None
  /\ stats' = [stats EXCEPT !.errors = @ + 1]
  /\ IF attempt < max_retries - 1
     THEN /\ pc' = "backoff"
          /\ hist' = [hist EXCEPT !.outcomes = Append(@, outcome),
                                  !.delays = Append(@, retry_delay),
                                  !.invoked = TRUE]
     ELSE /\ pc' = "returned"
          /\ hist' = [hist EXCEPT !.outcomes = Append(@, outcome),
                                  !.invoked = TRUE,
                                  !.failure = "transcription",
                                  !.exhausted = @ \cup {audio_file}]

\* The except branches of the retry loop: sleep and retry while attempts
\* remain, else count an error and return None.
AttemptFailed(outcome, wj) ==
  /\ whisper_json' = wj
  /\ transcript' = None
  /\ IF attempt < max_retries - 1
     THEN /\ pc' = "backoff"
          /\ stats' = stats
          /\ hist' = [hist EXCEPT !.outcomes = Append(@, outcome),
                                  !.delays = Append(@, retry_delay),
                                  !.invoked = TRUE]
     ELSE /\ pc' = "returned"
          /\ stats' = [stats EXCEPT !.errors = @ + 1]
          /\ hist' = [hist EXCEPT !.outcomes = Append(@, outcome),
                                  !.invoked = TRUE,
                                  !.failure = "transcription",
                                  !.exhausted = @ \cup {audio_file}]

\* break: the payload was loaded.
AttemptLoaded(wj) ==
  /\ whisper_json' = wj
  /\ transcript' = wj[audio_file]
  /\ pc' = "check"
  /\ stats' = stats
  /\ hist' = [hist EXCEPT !.outcomes = Append(@, "loaded"), !.invoked = TRUE]

\* One pass of the retry loop.  whisper-cli times out, exits non-zero, exits
\* zero without writing its JSON, or exits zero having written payload p.
Attempt(ext) ==
  /\ pc = "attempt"
  /\ CASE ext.kind \in {"timeout", "nonzero"} ->
            AttemptFailed("transient", whisper_json)
       [] ext.kind = "nowrite" ->
            IF ~whisper_json[audio_file].exists
            THEN AttemptFailed("missing", whisper_json)
            ELSE IF ~whisper_json[audio_file].valid
            THEN AttemptFailed("unreadable", whisper_json)
            ELSE AttemptLoaded(whisper_json)
       [] ext.kind = "written" ->
            LET wj == [whisper_json EXCEPT ![audio_file] = ext.payload]
            IN IF ~ext.payload.valid
               THEN AttemptFailed("unreadable", wj)
               ELSE AttemptLoaded(wj)
  /\ UNCHANGED <<audio_dir_exists, whisper_found, exit_code, tree, outputs, limit, audio_files, i, attempt, retry_delay, result>>

Externals ==
  {[kind |-> k, payload |-> NoFile] : k \in {"timeout", "nonzero", "nowrite"}}
    \cup {[kind |-> "written", payload |-> p] : p \in Payloads}

\* Backoff without "retry_delay *= 2".
Backoff_NoDoubling ==
  /\ pc = "backoff"
  /\ retry_delay' = retry_delay
  /\ attempt' = attempt + 1
  /\ pc' = "attempt"
  /\ UNCHANGED <<audio_dir_exists, whisper_found, exit_code, tree, outputs, whisper_json, limit, audio_files, i,
                 transcript, result, stats, hist>>

\* time.sleep(retry_delay) returns: double the delay, next attempt.
Backoff ==
  /\ pc = "backoff"
  /\ retry_delay' = retry_delay * 2
  /\ attempt' = attempt + 1
  /\ pc' = "attempt"
  /\ UNCHANGED <<audio_dir_exists, whisper_found, exit_code, tree, outputs, whisper_json, limit, audio_files, i,
                 transcript, result, stats, hist>>

\* "if not transcript" and the extraction of the segments: an empty payload
\* counts an error, a segment without its keys raises KeyError out of run().
Check ==
  /\ pc = "check"
  /\ IF ~transcript.truthy
     THEN /\ pc' = "returned"
          /\ stats' = [stats EXCEPT !.errors = @ + 1]
          /\ result' = NoResult
          /\ hist' = [hist EXCEPT !.failure = "empty"]
          /\ UNCHANGED <<attempt, retry_delay, exit_code>>
     ELSE IF NormalizeRaises(transcript)
     THEN /\ pc' = "crashed"
          /\ stats' = stats
          /\ result' = NoResult
          /\ hist' = Crashed(hist, "normalize")
          /\ exit_code' = Exit(0)
          /\ attempt' = 0
          /\ retry_delay' = initial_retry_delay
     ELSE /\ pc' = "save"
          /\ stats' = stats
          /\ result' = Normalize(audio_file, transcript)
          /\ hist' = hist
          /\ UNCHANGED <<attempt, retry_delay, exit_code>>
  /\ UNCHANGED <<audio_dir_exists, whisper_found, tree, outputs, whisper_json, limit, audio_files, i, transcript>>

\* save_transcript: open(output_file, 'w') creates the empty file or raises.
SaveOpen(ok) ==
  /\ pc = "save"
  /\ IF ok
     THEN /\ outputs' = [outputs EXCEPT ![episode_id] = Partial]
          /\ pc' = "dump"
          /\ hist' = [hist EXCEPT !.writes = @ + 1]
          /\ UNCHANGED <<attempt, retry_delay, result, exit_code>>
     ELSE /\ outputs' = outputs
          /\ pc' = "crashed"
          /\ hist' = Crashed(hist, "write")
          /\ exit_code' = Exit(0)
          /\ attempt' = 0
          /\ retry_delay' = initial_retry_delay
          /\ result' = NoResult
  /\ UNCHANGED <<audio_dir_exists, whisper_found, tree, whisper_json, limit, audio_files, i, transcript, stats>>

\* save_transcript: json.dump and close complete the file, or the write
\* raises (disk full) and leaves what was written.
SaveDump(ok) ==
  /\ pc = "dump"
  /\ IF ok
     THEN /\ outputs' = [outputs EXCEPT ![episode_id] = Full(Document(result))]
          /\ pc' = "stats"
          /\ hist' = [hist EXCEPT !.records = @ + 1,
                                  !.words = @ + Document(result).metadata.word_count]
          /\ UNCHANGED <<attempt, retry_delay, result, exit_code>>
     ELSE /\ outputs' = outputs
          /\ pc' = "crashed"
          /\ hist' = Crashed(hist, "write")
          /\ exit_code' = Exit(0)
          /\ attempt' = 0
          /\ retry_delay' = initial_retry_delay
          /\ result' = NoResult
  /\ UNCHANGED <<audio_dir_exists, whisper_found, tree, whisper_json, limit, audio_files, i, transcript, stats>>

\* UpdateStats with "=" in place of "+=" for the totals.
UpdateStats_Assign ==
  /\ pc = "stats"
  /\ stats' = [stats EXCEPT !.processed = @ + 1,
                            !.total_duration = result.duration_seconds,
                            !.total_words = result.word_count]
  /\ pc' = "returned"
  /\ UNCHANGED <<audio_dir_exists, whisper_found, exit_code, tree, outputs, whisper_json, limit, audio_files, i, attempt,
                 retry_delay, transcript, result, hist>>

\* "Update stats" and return result.
UpdateStats ==
  /\ pc = "stats"
  /\ stats' = [stats EXCEPT !.processed = @ + 1,
                            !.total_duration = @ + result.duration_seconds,
                            !.total_words = @ + result.word_count]
  /\ pc' = "returned"
  /\ UNCHANGED <<audio_dir_exists, whisper_found, exit_code, tree, outputs, whisper_json, limit, audio_files, i, attempt,
                 retry_delay, transcript, result, hist>>

\* Back in run(): the locals of process_single_episode are gone; pause and
\* take the next file, or print the final summary and reach the end of the
\* script.
Advance ==
  /\ pc = "returned"
  /\ IF i < Len(audio_files)
     THEN /\ i' = i + 1
          /\ pc' = "item"
          /\ exit_code' = exit_code
     ELSE /\ i' = i
          /\ pc' = "done"
          /\ exit_code' = Exit(0)
  /\ attempt' = 0
  /\ retry_delay' = initial_retry_delay
  /\ transcript' = None
  /\ result' = NoResult
  /\ hist' = ItemHist(hist, stats)
  /\ UNCHANGED <<audio_dir_exists, whisper_found, tree, outputs, whisper_json, limit, audio_files, stats>>

\* Interrupt with a clean-up that removes the transcript of the current item.
Interrupt_Unlink ==
  /\ pc \in Running
  /\ pc' = "interrupted"
  /\ exit_code' = Exit(0)
  /\ limit' = NoLimit
  /\ audio_files' = <<>>
  /\ i' = 0
  /\ attempt' = 0
  /\ retry_delay' = initial_retry_delay
  /\ transcript' = None
  /\ result' = NoResult
  /\ stats' = ZeroStats
  /\ hist' = [NoHist EXCEPT !.prev = hist.prev]
  /\ outputs' = [outputs EXCEPT ![episode_id] = Absent]
  /\ UNCHANGED <<audio_dir_exists, whisper_found, tree, whisper_json>>

\* KeyboardInterrupt, caught by the except clause around run(): the program
\* prints "Interrupted by user" and ends with status 0; what it held in
\* memory is gone.
Interrupt ==
  /\ pc \in Running
  /\ pc' = "interrupted"
  /\ exit_code' = Exit(0)
  /\ limit' = NoLimit
  /\ audio_files' = <<>>
  /\ i' = 0
  /\ attempt' = 0
  /\ retry_delay' = initial_retry_delay
  /\ transcript' = None
  /\ result' = NoResult
  /\ stats' = ZeroStats
  /\ hist' = [NoHist EXCEPT !.prev = hist.prev]
  /\ UNCHANGED <<audio_dir_exists, whisper_found, tree, outputs, whisper_json>>

Next ==
  \/ \E found_whisper \in BOOLEAN : StartRun(found_whisper)
  \/ BeginItem
  \/ \E ext \in Externals : Attempt(ext)
  \/ Backoff
  \/ Check
  \/ \E ok \in BOOLEAN : SaveOpen(ok)
  \/ \E ok \in BOOLEAN : SaveDump(ok)
  \/ UpdateStats
  \/ Advance
  \/ Interrupt

Spec == Init /\ [][Next]_vars

\* ------------------------------------------- a run over one cached payload
\* Segment texts with leading, trailing, inner and only white space.
TextPool ==
  { <<>>, << " " >>, << "a" >>, << " ", "a" >>, << "a", " ", "b" >>, << "b", "\t" >>,
    << "a", " ", " ", "b" >>, << "\t", "b", " " >> }

\* A whisper JSON whose segments carry the given texts.
TextPayload(texts) ==
  [exists |-> TRUE, valid |-> TRUE, truthy |-> TRUE, has_transcription |-> TRUE,
   transcription |->
     [k \in 1..Len(texts) |-> Seg(SegKeys, texts[k], (k - 1) * 1000, k * 1000)]]

TextPayloads ==
  {TextPayload(texts) : texts \in UNION {[1..n -> TextPool] : n \in 0..MaxSegments}}

\* One audio file whose whisper JSON an earlier run has left.
InitText ==
  /\ audio_dir_exists = TRUE
  /\ whisper_found = TRUE
  /\ exit_code = NoExit
  /\ tree = {<<season_01, S01E01_wav>>}
  /\ outputs = [id \in Ids |-> Absent]
  /\ \E cached \in TextPayloads :
       whisper_json = [p \in AudioUniverse |->
                         IF p = <<season_01, S01E01_wav>> THEN cached ELSE NoFile]
  /\ pc = "idle"
  /\ limit = NoLimit
  /\ audio_files = <<>>
  /\ i = 0
  /\ attempt = 0
  /\ retry_delay = initial_retry_delay
  /\ transcript = None
  /\ result = NoResult
  /\ stats = ZeroStats
  /\ hist = NoHist

NextText ==
  \/ StartRun(TRUE)
  \/ BeginItem
  \/ Check
  \/ \E ok \in BOOLEAN : SaveOpen(ok)
  \/ \E ok \in BOOLEAN : SaveDump(ok)
  \/ UpdateStats
  \/ Advance

SpecText == InitText /\ [][NextText]_vars

\* ------------------------------------------------ discovery on larger trees
season_2 == << "s", "e", "a", "s", "o", "n", "_", "2" >>
season_10 == << "s", "e", "a", "s", "o", "n", "_", "1", "0" >>
seasons == << "s", "e", "a", "s", "o", "n", "s" >>
S01E01_wav_json ==
  << "S", "0", "1", "E", "0", "1", ".", "w", "a", "v", ".", "j", "s", "o", "n" >>

\* Besides the audio files: season directories whose names order differently
\* as numbers and as text, a directory without the season prefix, a file
\* that lies in audio_extracted/ itself (directory <<>>), and the whisper
\* JSON next to an audio file.
DiscUniverse ==
  AudioUniverse \cup
    { <<season_10, S01E01_wav>>, <<season_2, S01E02_wav>>, <<seasons, S01E01_wav>>,
      << <<>>, S01E01_wav >>, <<season_01, S01E01_wav_json>> }

InitDiscovery ==
  /\ audio_dir_exists = TRUE
  /\ whisper_found = TRUE
  /\ exit_code = NoExit
  /\ tree \in {T \in SUBSET DiscUniverse : Cardinality(T) <= MaxListed}
  /\ outputs = [id \in Ids |-> Absent]
  /\ whisper_json = [p \in AudioUniverse |-> NoFile]
  /\ pc = "idle"
  /\ limit = NoLimit
  /\ audio_files = <<>>
  /\ i = 0
  /\ attempt = 0
  /\ retry_delay = initial_retry_delay
  /\ transcript = None
  /\ result = NoResult
  /\ stats = ZeroStats
  /\ hist = NoHist

NextDiscovery == \E found_whisper \in BOOLEAN : StartRun(found_whisper)

SpecDiscovery == InitDiscovery /\ [][NextDiscovery]_vars

\* ------------------------------------------------------- the test script
\* str.split(sep) for a one-character separator.
RECURSIVE SplitOn(_, _)
SplitOn(s, sep) ==
  LET H == {k \in 1..Len(s) : s[k] = sep}
  IN IF H = {} THEN <<s>>
     ELSE LET k == CHOOSE j \in H : \A h \in H : j <= h
          IN <<SubSeq(s, 1, k - 1)>> \o SplitOn(SubSeq(s, k + 1, Len(s)), sep)

unknown == << "u", "n", "k", "n", "o", "w", "n" >>

\* filename.split("E") has no second part: parts[1] raises IndexError.
episode_info_raises(name) ==
  StartsWith(name, << "S" >>) /\ Len(SplitOn(name, "E")) < 2

\* The episode info transcribe_episode takes from the file name.
episode_info(name) ==
  IF StartsWith(name, << "S" >>)
  THEN LET parts == SplitOn(name, "E")
           season == parts[1]
           episode == SplitOn(parts[2], ".")[1]
       IN [episode_id |-> season \o << "E" >> \o episode,
           season |-> season,
           episode |-> episode]
  ELSE [episode_id |-> SplitOn(name, ".")[1],
        season |-> unknown,
        episode |-> unknown]

\* The EpisodeTranscript transcribe_episode builds from a parsed payload
\* (duration_seconds in thousandths of a second, processing time left out).
transcribe_episode(file, transcript_data) ==
  LET raw == IF transcript_data.has_transcription
             THEN transcript_data.transcription ELSE <<>>
      segments == [k \in 1..Len(raw) |->
                     [text |-> Strip(raw[k].text),
                      start_ms |-> raw[k].from,
                      end_ms |-> raw[k].to,
                      timestamp_from |-> raw[k].from,
                      timestamp_to |-> raw[k].to,
                      words |-> Len(Split(raw[k].text))]]
      full_text == Join([k \in 1..Len(segments) |-> segments[k].text])
      info == episode_info(file[2])
  IN [episode_id |-> info.episode_id,
      season |-> info.season,
      episode_number |-> info.episode,
      full_text |-> full_text,
      segments |-> segments,
      duration_seconds |-> IF segments # <<>> THEN segments[Len(segments)].end_ms ELSE 0,
      word_count |-> IF full_text # <<>> THEN Len(Split(full_text)) ELSE 0,
      segment_count |-> Len(segments)]

\* audio_dir.glob("**/*.wav"), in the order the file system lists the files.
glob_wav(ls) == SelectSeq(ls, LAMBDA p : EndsWith(p[2], wav_suffix))

\* The audio files, each with the whisper JSON an earlier run may have left.
InitTest ==
  /\ audio_dir_exists \in BOOLEAN
  /\ whisper_found = TRUE
  /\ exit_code = NoExit
  /\ tree \in IF audio_dir_exists THEN SUBSET AudioUniverse ELSE {{}}
  /\ outputs = [id \in Ids |-> Absent]
  /\ \E cached \in TextPayloads \cup {NoFile, P_invalid} :
       whisper_json = [p \in AudioUniverse |-> IF p \in tree THEN cached ELSE NoFile]
  /\ pc = "idle"
  /\ limit = NoLimit
  /\ audio_files = <<>>
  /\ i = 0
  /\ attempt = 0
  /\ retry_delay = initial_retry_delay
  /\ transcript = None
  /\ result = NoResult
  /\ stats = ZeroStats
  /\ hist = NoHist

\* test_whisper_transcription up to the call of transcribe_episode: it
\* returns without the audio directory or without a .wav file, takes the
\* first file listed, and WhisperTranscriber() exits with status 1 when
\* whisper-cli is missing.
TestStart(found_whisper) ==
  /\ pc = "idle"
  /\ IF ~audio_dir_exists
     THEN /\ pc' = "test_ended"
          /\ exit_code' = Exit(0)
          /\ UNCHANGED <<whisper_found, audio_files, i>>
     ELSE \E found \in {glob_wav(ls) : ls \in Listings(tree)} :
            IF found = <<>>
            THEN /\ pc' = "test_ended"
                 /\ exit_code' = Exit(0)
                 /\ UNCHANGED <<whisper_found, audio_files, i>>
            ELSE /\ audio_files' = <<found[1]>>
                 /\ i' = 1
                 /\ whisper_found' = found_whisper
                 /\ pc' = IF found_whisper THEN "test_item" ELSE "exited"
                 /\ exit_code' = IF found_whisper THEN NoExit ELSE Exit(1)
  /\ UNCHANGED <<audio_dir_exists, tree, outputs, whisper_json, limit, attempt, retry_delay,
                 transcript, result, stats, hist>>

\* The rest of transcribe_episode once transcript_data is loaded: a segment
\* without its keys raises KeyError, which nothing catches.
TestBuild(wj) ==
  /\ whisper_json' = wj
  /\ transcript' = wj[audio_file]
  /\ IF NormalizeRaises(wj[audio_file])
     THEN pc' = "test_crashed" /\ exit_code' = Exit(1) /\ result' = NoResult
     ELSE /\ pc' = "test_ended"
          /\ exit_code' = Exit(0)
          /\ result' = transcribe_episode(audio_file, wj[audio_file])

\* transcribe_episode returns None: "Test failed".
TestFailed(wj) ==
  /\ whisper_json' = wj
  /\ transcript' = None
  /\ result' = NoResult
  /\ pc' = "test_ended"
  /\ exit_code' = Exit(0)

\* transcribe_episode and the report of its result.  An existing whisper
\* JSON is loaded outside the try block; otherwise whisper-cli runs once and
\* any error of the call or of the load makes the method return None.
\* test_output.json, written on success, is not part of the state.
TestTranscribe(ext) ==
  /\ pc = "test_item"
  /\ IF episode_info_raises(audio_file[2])
     THEN /\ pc' = "test_crashed"
          /\ exit_code' = Exit(1)
          /\ UNCHANGED <<whisper_json, transcript, result>>
     ELSE IF whisper_json[audio_file].exists
     THEN IF whisper_json[audio_file].valid
          THEN TestBuild(whisper_json)
          ELSE /\ pc' = "test_crashed"
               /\ exit_code' = Exit(1)
               /\ UNCHANGED <<whisper_json, transcript, result>>
     ELSE CASE ext.kind \in {"timeout", "nonzero", "nowrite"} -> TestFailed(whisper_json)
            [] ext.kind = "written" ->
                 LET wj == [whisper_json EXCEPT ![audio_file] = ext.payload]
                 IN IF ext.payload.valid THEN TestBuild(wj) ELSE TestFailed(wj)
  /\ UNCHANGED <<audio_dir_exists, whisper_found, tree, outputs, limit, audio_files, i, attempt,
                 retry_delay, stats, hist>>

NextTest ==
  \/ \E found_whisper \in BOOLEAN : TestStart(found_whisper)
  \/ \E ext \in Externals : TestTranscribe(ext)

SpecTest == InitTest /\ [][NextTest]_vars

\* ------------------------------------------------------------------ claims
\* process_single_episode has just returned to run() for audio_files[i].
Returned == pc = "returned"

\* The payload is parsed, not empty, and every segment has its keys: the
\* normaliser builds a record from it.
Persistable(t) == t.valid /\ t.truthy /\ ~NormalizeRaises(t)

AllOutcomes(kinds) == \A k \in 1..Len(hist.outcomes) : hist.outcomes[k] \in kinds

\* Sleeps lie between attempts: the k-th sleep follows the k-th attempt and
\* precedes the next one.
DelaysBetweenAttempts ==
  /\ pc = "attempt" => Len(hist.outcomes) = attempt /\ Len(hist.delays) = attempt
  /\ pc = "backoff" => Len(hist.outcomes) = attempt + 1 /\ Len(hist.delays) = attempt + 1

\* C1: an item whose first two whisper-cli attempts fail transiently and
\* whose third loads a payload took exactly 3 attempts with sleeps of 30 and
\* then 60 seconds between them; with a payload the normaliser accepts the
\* item then goes on to be saved, and once it has returned its transcript
\* is complete, processed is one higher and errors is unchanged.
C1_RetryThenSuccess ==
  /\ DelaysBetweenAttempts
  /\ hist.outcomes = << "transient", "transient", "loaded" >> =>
       /\ attempt = 2
       /\ pc \notin {"attempt", "backoff"}
       /\ hist.delays = << 30, 60 >>
       /\ pc \in {"check", "save", "dump", "stats", "returned"} /\ Persistable(transcript) =>
            hist.failure = "none"
       /\ Returned /\ Persistable(transcript) =>
            /\ outputs[episode_id].state = "full"
            /\ stats.processed = hist.stats0.processed + 1
            /\ stats.errors = hist.stats0.errors

C1_Witness ==
  /\ Returned
  /\ hist.outcomes = << "transient", "transient", "loaded" >>
  /\ transcript = P_good
  /\ outputs[episode_id].state = "full"
  /\ stats.processed = hist.stats0.processed + 1

Exhausted == Len(hist.outcomes) = max_retries /\ AllOutcomes({"transient"})

\* C2: an item whose whisper-cli attempts all fail transiently is attempted
\* exactly 3 times, sleeps 30 then 60 seconds and not after the third
\* failure, counts exactly one error, leaves no transcript, and returns to
\* run(), whose next step takes the next file (or prints the summary).
C2_RetriesExhausted ==
  /\ [](/\ Len(hist.outcomes) <= max_retries
        /\ AllOutcomes({"transient"}) /\ hist.outcomes # <<>> =>
             /\ hist.delays = SubSeq(<< 30, 60 >>, 1, Min(Len(hist.outcomes), 2))
             /\ Len(hist.outcomes) < max_retries => pc \in {"backoff", "attempt"}
             /\ Len(hist.outcomes) = max_retries => Returned
        /\ Exhausted /\ Returned =>
             /\ stats.errors = hist.stats0.errors + 1
             /\ stats.processed = hist.stats0.processed
             /\ ~output_exists(episode_id)
             /\ hist.failure = "transcription")
  /\ [][Exhausted /\ Returned /\ pc' # "interrupted" =>
          IF i < Len(audio_files) THEN pc' = "item" /\ i' = i + 1 ELSE pc' = "done"]_vars

C2_Witness ==
  /\ Returned
  /\ i < Len(audio_files)
  /\ Exhausted
  /\ hist.delays = << 30, 60 >>
  /\ stats.errors = hist.stats0.errors + 1

InRun == pc \in Running \cup {"done"}

\* The previous run ran to its summary over the same list of files: the tree
\* is unchanged and both lists are heads of the same discovery order, so
\* they are equal when they are equally long, and a completed run has
\* counted each of its files as processed, failed or skipped.
PrevRunSame ==
  /\ hist.prev.pc = "done"
  /\ hist.prev.processed + hist.prev.errors + hist.prev.skipped = Len(audio_files)

PrevRunClean == PrevRunSame /\ hist.prev.errors = 0

C5_InterruptedWriteNotDone ==
  pc = "interrupted" =>
    \A id \in Ids : output_exists(id) => outputs[id].state = "full"

\* C6: every error of an item is caught before it leaves run()'s loop and is
\* counted in errors, so the loop goes on to the later items and the summary.
C6_ItemFailureNeverStopsRun ==
  hist.failure # "none" =>
    /\ pc # "crashed"
    /\ Returned => stats.errors = hist.stats0.errors + 1

\* Order of two paths: by directory name, then by file name.
PathLess(p, q) == IF p[1] = q[1] THEN StrLess(p[2], q[2]) ELSE StrLess(p[1], q[1])

RECURSIVE Sorted(_)
Sorted(S) ==
  IF S = {} THEN <<>>
  ELSE LET m == CHOOSE x \in S : \A y \in S \ {x} : PathLess(x, y)
       IN <<m>> \o Sorted(S \ {m})

\* The *.wav files of the season_* directories, in discovery order.
Discovered ==
  Sorted({p \in tree : StartsWith(p[1], season_prefix) /\ EndsWith(p[2], wav_suffix)})

\* C7: with a limit N the list run() handles is the first N discovered files
\* (all when there are fewer) and at most N items are processed.
C7_LimitCapsItems ==
  limit.given /\ InRun =>
    /\ audio_files = SubSeq(Discovered, 1, Min(limit.n, Len(Discovered)))
    /\ stats.processed <= limit.n

\* C8: handling an item whose transcript exists is a skip: whisper-cli is
\* not called, nothing is written, no file changes and the stats stay as
\* they are; a complete transcript is never changed by any step.
C8_NoUpdateInPlace ==
  /\ [][pc = "item" /\ output_exists(episode_id) /\ pc' # "interrupted" =>
          /\ pc' = "returned"
          /\ outputs' = outputs
          /\ whisper_json' = whisper_json
          /\ stats' = stats
          /\ hist'.invoked = hist.invoked
          /\ hist'.writes = hist.writes
          /\ hist'.skipped = hist.skipped + 1]_vars
  /\ [][\A id \in Ids : outputs[id].state = "full" => outputs'[id] = outputs[id]]_vars

C8_Witness ==
  /\ Returned
  /\ hist.prev.pc # "idle"
  /\ hist.skipped >= 1
  /\ outputs[episode_id].state = "full"
  /\ ~hist.invoked
  /\ stats = ZeroStats

\* C9: a failed write of the transcript counts one error, does not count as
\* processed, and leaves no file that the completion check sees.
C9_WriteFailureIsItemFailure ==
  hist.failure = "write" =>
    /\ stats.errors = hist.stats0.errors + 1
    /\ stats.processed = hist.stats0.processed
    /\ ~output_exists(episode_id)

\* C10: an item whose loaded payload is empty, has no segment list or has a
\* segment without text, offsets or timestamps returns with one more error
\* and no transcript, and the run does not crash.
C10_MalformedPayloadIsItemFailure ==
  pc \in {"returned", "crashed"} /\ transcript.exists /\ ~WellFormed(transcript) =>
    /\ Returned
    /\ stats.errors = hist.stats0.errors + 1
    /\ ~output_exists(episode_id)

\* C11: the ids of the files run() handles are pairwise distinct, so no two
\* of them share an output location.  (Discovery is a function of the tree,
\* so the ids and their order are the same in every run on the same tree.)
C11_IdsPairwiseDistinct ==
  \A j, k \in 1..Len(audio_files) :
    j # k => parse_episode_id(audio_files[j]).episode_id
               # parse_episode_id(audio_files[k]).episode_id

\* C12: the step at which the interrupt arrives ends the program and leaves
\* every complete transcript unchanged and still seen by the completion
\* check; an interrupted program takes no further step: what follows is a
\* new start of the program, not another item.
C12_InterruptKeepsRecords ==
  /\ [][pc' = "interrupted" /\ pc # "interrupted" =>
          /\ pc \in Running
          /\ \A id \in Ids : outputs[id].state = "full" =>
                outputs'[id] = outputs[id] /\ outputs'[id].state # "absent"]_vars
  /\ [][pc = "interrupted" =>
          /\ pc' \in {"exited", "nofiles", "done", "item"}
          /\ i' <= 1
          /\ stats' = ZeroStats
          /\ outputs' = outputs
          /\ hist'.writes = 0 /\ ~hist'.invoked /\ hist'.skipped = 0]_vars

C12_Witness ==
  /\ pc = "interrupted"
  /\ \E id \in Ids : outputs[id].state = "full"
  /\ \E id \in Ids : outputs[id].state = "partial"

\* The process has ended.
Ended == pc \in Stopped \ {"idle"}

\* C13 as stated: the exit status is non-zero exactly when the audio
\* directory is missing.
C13_ExitNonZeroOnlyWithoutAudioDir ==
  exit_code.exited => (exit_code.code # 0 <=> ~audio_dir_exists)

\* C13 amended: the process has an exit status exactly when it has ended;
\* the status is 1 when whisper-cli or the audio directory is missing, and
\* 0 in every other outcome: no files found, the summary printed (with or
\* without failed items), an exception or an interrupt caught at the top.
C13_ExitStatus ==
  /\ exit_code.exited <=> Ended
  /\ exit_code.exited =>
       /\ exit_code.code = IF ~whisper_found \/ ~audio_dir_exists THEN 1 ELSE 0
       /\ exit_code.code = 1 <=> pc = "exited"
  /\ pc \in {"nofiles", "done", "crashed", "interrupted"} => exit_code = Exit(0)

C13_Witness ==
  /\ pc = "exited"
  /\ audio_dir_exists
  /\ ~whisper_found
  /\ exit_code = Exit(1)
  /\ hist.prev.pc = "done"
  /\ hist.prev.errors >= 1

\* The items of the run that have ended as processed, failed or skipped.
Resolved == stats.processed + stats.errors + hist.skipped

\* C14: a run that is not interrupted does not stop before its summary:
\* every item of the list ends as exactly one of skipped, succeeded or
\* failed, items are resolved one after the other, and at the summary all
\* of them are.
C14_EveryItemResolves ==
  /\ pc # "crashed"
  /\ pc \in Running => Resolved = IF Returned THEN i ELSE i - 1
  /\ pc = "done" => Resolved = Len(audio_files)

\* The number of maximal runs of non-white-space characters.
TokenCount(s) ==
  Cardinality({k \in 1..Len(s) : s[k] \notin WS /\ (k = 1 \/ s[k - 1] \in WS)})

\* t is s without the white space at its two ends.
IsStripOf(t, s) ==
  \E a \in 0..Len(s) : \E b \in a..Len(s) :
    /\ t = SubSeq(s, a + 1, b)
    /\ \A k \in (1..a) \cup ((b + 1)..Len(s)) : s[k] \in WS
    /\ t # <<>> => t[1] \notin WS /\ t[Len(t)] \notin WS

\* The number of characters before the k-th part in the joined text.
RECURSIVE Offset(_, _)
Offset(parts, k) ==
  IF k = 1 THEN 0 ELSE Offset(parts, k - 1) + Len(parts[k - 1]) + 1

\* text is the parts in order with one space between neighbours.
IsJoinOf(text, parts) ==
  IF parts = <<>> THEN text = <<>>
  ELSE /\ Len(text) = Offset(parts, Len(parts)) + Len(parts[Len(parts)])
       /\ \A k \in 1..Len(parts) :
            /\ SubSeq(text, Offset(parts, k) + 1, Offset(parts, k) + Len(parts[k])) = parts[k]
            /\ k > 1 => text[Offset(parts, k)] = " "

\* C15: in every complete transcript word_count is the number of
\* white-space-delimited tokens of full_text (0 for the empty text) and
\* full_text is the segment texts in order joined by single spaces; the
\* segment texts of the record just written are the raw texts of the payload
\* without the white space at their ends.
C15_WordCount ==
  /\ \A id \in Ids : outputs[id].state = "full" =>
        /\ outputs[id].data.metadata.word_count = TokenCount(outputs[id].data.full_text)
        /\ IsJoinOf(outputs[id].data.full_text,
                    [k \in 1..Len(outputs[id].data.segments) |->
                       outputs[id].data.segments[k].text])
  /\ pc \in {"stats", "returned"} /\ transcript.has_transcription =>
        /\ outputs[episode_id].state = "full"
        /\ Len(outputs[episode_id].data.segments) = Len(transcript.transcription)
        /\ \A k \in 1..Len(transcript.transcription) :
             IsStripOf(outputs[episode_id].data.segments[k].text,
                       transcript.transcription[k].text)

C15_Witness ==
  /\ Returned
  /\ outputs[episode_id].state = "full"
  /\ Len(outputs[episode_id].data.segments) = 2
  /\ outputs[episode_id].data.segments[1].text = <<>>
  /\ outputs[episode_id].data.full_text = << " ", "a", " ", " ", "b" >>
  /\ outputs[episode_id].data.metadata.word_count = 2

\* s comes before t in the order of text: the first position where they
\* differ decides, and a proper prefix comes first.
LexLess(s, t) ==
  \E n \in 0..Min(Len(s), Len(t)) :
    /\ SubSeq(s, 1, n) = SubSeq(t, 1, n)
    /\ n < Len(t)
    /\ n < Len(s) => Ord(s[n + 1]) < Ord(t[n + 1])

Before(p, q) == LexLess(p[1], q[1]) \/ (p[1] = q[1] /\ LexLess(p[2], q[2]))

IsSeasonWav(p) == StartsWith(p[1], season_prefix) /\ EndsWith(p[2], wav_suffix)

\* C16: without a limit the list run() works on holds exactly the files of
\* the tree that lie in a season_* directory and end in .wav, each once,
\* ordered by directory name and then by file name as text, whatever the
\* order in which the file system listed them.
C16_DiscoveryOrder ==
  pc \in Running \cup {"done", "nofiles"} /\ ~limit.given =>
    /\ \A p \in tree : IsSeasonWav(p) <=> \E k \in 1..Len(audio_files) : audio_files[k] = p
    /\ \A k \in 1..Len(audio_files) : audio_files[k] \in tree
    /\ \A j, k \in 1..Len(audio_files) : j < k => Before(audio_files[j], audio_files[k])

C16_Witness ==
  /\ pc = "item"
  /\ ~limit.given
  /\ Cardinality(tree) = 4
  /\ Len(audio_files) = 3
  /\ audio_files[1][1] = season_01
  /\ audio_files[2][1] = season_10
  /\ audio_files[3][1] = season_2

\* C17: no step of a run lowers processed, errors, total_duration or
\* total_words.
C17_StatsMonotone ==
  [][(pc \in Running) /\ pc' \in Running \cup {"done", "crashed"} =>
       (/\ stats'.processed >= stats.processed
        /\ stats'.errors >= stats.errors
        /\ stats'.total_duration >= stats.total_duration
        /\ stats'.total_words >= stats.total_words)]_vars

C17_Witness ==
  /\ Returned
  /\ i = 2
  /\ stats.processed = 2
  /\ hist.stats0.total_words = 3
  /\ stats.total_words = 3
  /\ stats.total_duration = 2500

\* C18: the run works on one item at a time: while item i is attempted,
\* slept for or written, exactly the i - 1 items before it have ended; the
\* index moves only from an item that has returned to the next one; a step
\* writes only the transcript and the whisper JSON of the current item; and
\* the stats change only at a step with which the current item returns.
C18_StrictlySequential ==
  /\ [](pc \in {"attempt", "backoff", "check", "save", "dump", "stats"} =>
          /\ i \in 1..Len(audio_files)
          /\ Resolved = i - 1)
  /\ [][(pc \in Running) /\ pc' # "interrupted" =>
          /\ i' # i => Returned /\ pc' = "item" /\ i' = i + 1
          /\ pc' = "item" => Returned
          /\ \A id \in Ids : outputs'[id] # outputs[id] =>
                id = episode_id /\ pc \in {"save", "dump"}
          /\ \A p \in AudioUniverse : whisper_json'[p] # whisper_json[p] =>
                p = audio_file /\ pc = "attempt"
          /\ stats' # stats => pc' = "returned" /\ i' = i]_vars

C18_Witness ==
  /\ pc = "backoff"
  /\ i = 2
  /\ hist.delays = << 30, 60 >>
  /\ stats.errors = 1
  /\ hist.exhausted # {}

\* C19: a file that failed after max_retries attempts in the previous run
\* has no transcript at the end of that run, and when the next run takes it
\* up it is not skipped: the retry loop starts at attempt 0 with a delay of
\* 30 seconds.
C19_FailedItemRetriedNextRun ==
  /\ [](pc = "done" =>
          \A p \in hist.exhausted : ~output_exists(parse_episode_id(p).episode_id))
  /\ [][pc = "item" /\ audio_file \in hist.prev.exhausted /\ pc' # "interrupted" =>
          pc' = "attempt" /\ attempt' = 0 /\ retry_delay' = initial_retry_delay]_vars

\* The current item found no transcript and took the whisper JSON of an
\* earlier run: it holds a payload without any attempt made.
FromCache == pc \in {"check", "save", "dump", "stats", "returned"}
               /\ transcript.exists /\ hist.outcomes = <<>>

\* C20: an item without transcript whose whisper JSON exists is not
\* attempted: whisper-cli is not called and nothing is slept for it; the
\* payload is the cached one, and once an item with a well-formed cached
\* payload has returned its transcript is the record of that payload and
\* processed is one higher.
C20_CachedRawOutput ==
  /\ [](FromCache =>
          /\ hist.delays = <<>>
          /\ attempt = 0
          /\ transcript = whisper_json[audio_file]
          /\ Returned /\ WellFormed(transcript) =>
               /\ outputs[episode_id] = Full(Document(Normalize(audio_file, whisper_json[audio_file])))
               /\ stats.processed = hist.stats0.processed + 1
               /\ stats.errors = hist.stats0.errors)
  /\ [][pc = "item" /\ ~output_exists(episode_id) /\ whisper_json[audio_file].exists
          /\ pc' # "interrupted" =>
            /\ pc' \in {"check", "crashed"}
            /\ hist'.invoked = hist.invoked
            /\ hist'.delays = <<>>
            /\ whisper_json' = whisper_json
            /\ whisper_json[audio_file].valid => pc' = "check" /\ FromCache']_vars

C20_Witness ==
  /\ Returned
  /\ FromCache
  /\ ~hist.invoked
  /\ transcript = P_good
  /\ outputs[episode_id].state = "full"
  /\ stats.processed = 1

\* C21: the items that have returned are counted once each, as processed,
\* failed or skipped (an item that was not skipped has added one to exactly
\* one of processed and errors when it returns); and when the run has ended, by its summary or by an
\* exception caught at the top, processed is the number of transcripts the
\* run has written, processed + errors + skipped is the length of the run's
\* list, and total_words is the sum of the word counts written.
C21_StatsAccounting ==
  /\ pc \in Running => Resolved = IF Returned THEN i ELSE i - 1
  /\ Returned =>
       LET dp == stats.processed - hist.stats0.processed
           de == stats.errors - hist.stats0.errors
       IN IF result = NoResult /\ hist.failure = "none"
          THEN dp = 0 /\ de = 0
          ELSE (dp = 1 /\ de = 0) \/ (dp = 0 /\ de = 1)
  /\ pc \in {"done", "crashed"} =>
       /\ stats.processed = hist.records
       /\ stats.total_words = hist.words
       /\ Resolved = Len(audio_files)

\* A file name of the form S<ss>E<ee>.wav.
Digits == {"0", "1", "2", "3", "4", "5", "6", "7", "8", "9"}

EpisodeName(name) ==
  /\ Len(name) = 10
  /\ name[1] = "S" /\ name[4] = "E"
  /\ \A k \in {2, 3, 5, 6} : name[k] \in Digits
  /\ SubSeq(name, 7, 10) = wav_suffix

\* C22: for an audio file named S<ss>E<ee>.wav and a well-formed payload,
\* the record the test script's transcribe_episode yields has the same
\* episode_id, season, episode_number, full_text, segments, word_count,
\* segment_count and duration_seconds as the record the main script builds
\* from the same file and payload.
C22_TestMatchesMain ==
  pc = "test_ended" /\ result # NoResult /\ EpisodeName(audio_file[2]) /\ WellFormed(transcript) =>
    LET main == Normalize(audio_file, transcript)
    IN /\ result.episode_id = main.episode_id
       /\ result.season = main.season
       /\ result.episode_number = main.episode_number
       /\ result.full_text = main.full_text
       /\ result.segments = main.segments
       /\ result.word_count = main.word_count
       /\ result.segment_count = main.segment_count
       /\ result.duration_seconds = main.duration_seconds
====
